---- MODULE Spec2Model ----
(***************************************************************************)
(* A model of the PenDAq device session (PenDaq, src/unnamed/part_001):    *)
(* the open/close/start/stop/_onDisconnect state machine, the asynchronous *)
(* completions of its control transfers and interface releases, and the    *)
(* process.nextTick queue through which error callbacks are delivered.     *)
(*                                                                         *)
(* The session is assumed to have an 'error' listener attached, so that    *)
(* emit('error') delivers the event instead of throwing.                   *)
(***************************************************************************)
EXTENDS Integers, Sequences, FiniteSets, TLC

\* Bound on the number of public method calls made by the user of a session.
MaxCalls == 4

\* Bound on the number of faults the transport produces (a throwing step of
\* open(), a failed control transfer or release, a throwing release).
MaxFaults == 2

\* Bound on the number of public method calls made while the endpoints deliver
\* buffers and errors.
MaxIOCalls == 3

\* Bound on the number of public method calls in the runs checked for
\* termination.
MaxLiveCalls == 3

\* Bound on the number of transport faults in the runs checked for
\* termination.
MaxLiveFaults == 1

\* Bound on the number of whole 9-byte windows in a delivered buffer.
MaxWindows == 2

\* The value an absent error argument has (undefined / null in the code).
NoErr == "none"
\* new Error("The device must be opened before")
NotOpen == "NotOpen"
\* new Error("Device not connected")
NotConnected == "NotConnected"
\* an error thrown or reported by the usb transport
TransportFailure == "Transport"

\* new Error("Checksum code does not match the calculated code")
ChecksumMismatch == "Checksum"

\* The transport steps of open(), in the order the code performs them.
OpenSteps ==
  << "device.open", "interface", "detachKernelDriver", "endpoint",
     "claim_ctl", "claim_data", "listen", "startPoll" >>

NSteps == Len(OpenSteps)

\* A completion callback argument: none, the user's function, or the function
\* close() hands to stop() (which captures close()'s own cb).
NoCb == [fn |-> "none", cb |-> FALSE]
UserCb == [fn |-> "user", cb |-> TRUE]
Callbacks == {NoCb, UserCb}
closeInner(cb) == [fn |-> "closeInner", cb |-> cb.cb]
CapturedCb(f) == IF f.cb THEN UserCb ELSE NoCb

VARIABLES
  isOpen,       \* this._isOpen
  isRunning,    \* this._isRunning
  isConnected,  \* this._isConnected
  device,       \* what the usb transport holds for this._device
  pending,      \* transport requests issued and not yet completed
  ticks,        \* the process.nextTick queue
  logs,         \* per call still in progress: what it has done so far
  last,         \* the call the last step worked for, and what it has done
  ncalls,       \* number of public calls made so far
  nfaults,      \* number of transport faults so far
  devices,      \* index.js: the tracked sessions, as handles into sessions
  sessions,     \* every PenDaq the registry has constructed: device and flags
  listening,    \* which of the registry's listeners usb holds
  present,      \* devices notified as attached and not as detached since
  connects,     \* per device: 'connected' events since it was last detached
  ended,        \* end() has been called
  rlast,        \* the last registry step: what happened and what it did
  nsteps        \* number of registry steps so far

svars ==
  << isOpen, isRunning, isConnected, device, pending, ticks, logs, last,
     ncalls, nfaults >>

rvars == << devices, sessions, listening, present, connects, ended, rlast, nsteps >>

vars == << svars, rvars >>

\* The state after new PenDaq(device): nothing acquired on the transport.
DeviceInit ==
  [ opened |-> FALSE, ctl |-> FALSE, data |-> FALSE,
    listeners |-> FALSE, polling |-> FALSE, detached |-> FALSE ]

\* The machine state a handler run on behalf of call c works on; trace is what
\* call c has done so far, relThrows is the transport's answer (a synchronous
\* throw or not) to a data-interface release made in this step.
M(c, thr) ==
  [ open |-> isOpen, run |-> isRunning, con |-> isConnected, dev |-> device,
    pending |-> pending, ticks |-> ticks, relThrows |-> thr,
    trace |-> IF c = 0 THEN << >> ELSE logs[c] ]

\* Call c still has a continuation: a transport request or a deferred callback.
InProgress(s, c) ==
  \/ \E r \in s.pending : r.c = c
  \/ \E i \in DOMAIN s.ticks : s.ticks[i].c = c

Commit(s, c) ==
  /\ isOpen' = s.open
  /\ isRunning' = s.run
  /\ isConnected' = s.con
  /\ device' = s.dev
  /\ pending' = s.pending
  /\ ticks' = s.ticks
  /\ last' = [c |-> c, log |-> s.trace, done |-> ~InProgress(s, c)]
  /\ logs' = IF c = 0 THEN logs
             ELSE [logs EXCEPT ![c] = IF InProgress(s, c) THEN s.trace ELSE << >>]
  /\ UNCHANGED rvars

\* One history entry, with the session flags at that moment.
Ev(s, k, n, c, err, v) ==
  [ k |-> k, n |-> n, c |-> c, err |-> err, v |-> v,
    open |-> s.open, run |-> s.run, con |-> s.con ]

Log(s, k, n, c, err, v) == [s EXCEPT !.trace = Append(@, Ev(s, k, n, c, err, v))]

\* self.emit(evt, err)
Emit(s, evt, c, err) == Log(s, "emit", evt, c, err, 0)
\* a call made on the usb transport
Tx(s, n, c, v) == Log(s, "tx", n, c, NoErr, v)
\* the user's completion callback being invoked with err
CallUser(s, c, err) == Log(s, "cb", "callback", c, err, 0)
\* the transport throwing, or completing a request with an error
Fault(s, n, c) == Log(s, "fault", n, c, TransportFailure, 0)
\* a request handed to the transport, to complete later
Submit(s, req) == [s EXCEPT !.pending = @ \cup {req}]

\* callbackError(test, cb, arg, self), for a true test: the callback is
\* deferred with process.nextTick, 'error' is emitted only when self is given.
callbackError(s, f, arg, c, self) ==
  LET s1 == IF f.fn # "none"
            THEN [s EXCEPT !.ticks = Append(@, [f |-> f, err |-> arg, c |-> c])]
            ELSE s
  IN IF self THEN Emit(s1, "error", c, arg) ELSE s1

\* PenDaq.prototype.stop
stop(s, c, f) ==
  IF ~s.open THEN callbackError(s, f, NotOpen, c, FALSE)
  ELSE IF ~s.con THEN callbackError(s, f, NotConnected, c, FALSE)
  ELSE Submit(Tx(s, "controlTransfer", c, 0), [kind |-> "stop", c |-> c, f |-> f])

\* PenDaq.prototype.start
start(s, c, f) ==
  IF ~s.open THEN callbackError(s, f, NotOpen, c, FALSE)
  ELSE IF ~s.con THEN callbackError(s, f, NotConnected, c, FALSE)
  ELSE Submit(Tx(s, "controlTransfer", c, 3), [kind |-> "start", c |-> c, f |-> f])

RECURSIVE close(_, _, _)

\* Calling a callback function f with argument err.
Invoke(s, f, err, c) ==
  CASE f.fn = "none" -> s
    [] f.fn = "user" -> CallUser(s, c, err)
    [] f.fn = "closeInner" ->
         IF err # NoErr
         THEN callbackError(s, CapturedCb(f), err, c, TRUE)
         ELSE close(s, c, CapturedCb(f))

\* emitOnce(evt, f, self): f is registered with once() and the event emitted,
\* so f runs synchronously, after the listeners registered earlier.
emitOnce(s, evt, f, c) == Invoke(Emit(s, evt, c, NoErr), f, NoErr, c)

\* close() without its closed/disconnected guard.
closeNoGuard(s, c, f) ==
  IF s.run THEN stop(s, c, closeInner(f))
  ELSE Submit(Tx(s, "release_data", c, 0), [kind |-> "rel_data", c |-> c, f |-> f])

\* PenDaq.prototype.close
close(s, c, f) ==
  IF ~s.open \/ ~s.con THEN emitOnce(s, "close", f, c)
  ELSE IF s.run THEN stop(s, c, closeInner(f))
  ELSE IF s.relThrows
       THEN Emit(Fault(Tx(s, "release_data", c, 0), "release_data", c),
                 "error", c, TransportFailure)
       ELSE Submit(Tx(s, "release_data", c, 0), [kind |-> "rel_data", c |-> c, f |-> f])

\* The transport after the first n steps of open() have taken effect.
Acquired(dev, n) ==
  [ opened |-> dev.opened \/ n >= 1,
    detached |-> dev.detached \/ n >= 3,
    ctl |-> dev.ctl \/ n >= 5,
    data |-> dev.data \/ n >= 6,
    listeners |-> dev.listeners \/ n >= 7,
    polling |-> dev.polling \/ n >= 8 ]

\* The transport calls of open() up to and including step n.
Attempt(s, n, c) ==
  [s EXCEPT !.trace = @ \o [i \in 1..n |-> Ev(s, "tx", OpenSteps[i], c, NoErr, 0)]]

\* open() without the already-open guard.
openNoGuard(s, c, f, failAt) ==
  IF ~s.con THEN s
  ELSE emitOnce([Attempt(s, NSteps, c) EXCEPT !.dev = Acquired(@, NSteps),
                                              !.open = TRUE], "open", f, c)

\* open() marking the session open before the transport steps are done.
openEarlyFlag(s, c, f, failAt) ==
  IF s.open \/ ~s.con THEN s
  ELSE IF failAt = 0
       THEN emitOnce([Attempt(s, NSteps, c) EXCEPT !.dev = Acquired(@, NSteps),
                                                   !.open = TRUE], "open", f, c)
       ELSE callbackError(
              [Fault(Attempt(s, failAt, c), OpenSteps[failAt], c)
                 EXCEPT !.dev = Acquired(@, failAt - 1), !.open = TRUE],
              f, TransportFailure, c, TRUE)

\* PenDaq.prototype.open; failAt = 0 when every transport step succeeds,
\* otherwise the step that throws.
open(s, c, f, failAt) ==
  IF s.open \/ ~s.con THEN s
  ELSE IF failAt = 0
       THEN LET s1 == Attempt(s, NSteps, c)
                s2 == [s1 EXCEPT !.dev = Acquired(@, NSteps), !.open = TRUE]
            IN emitOnce(s2, "open", f, c)
       ELSE LET s1 == Fault(Attempt(s, failAt, c), OpenSteps[failAt], c)
                s2 == [s1 EXCEPT !.dev = Acquired(@, failAt - 1)]
            IN callbackError(s2, f, TransportFailure, c, TRUE)

\* The completion callback of start()'s control transfer.
startDone(s, r, err) ==
  IF err # NoErr THEN callbackError(s, r.f, err, r.c, TRUE)
  ELSE emitOnce([s EXCEPT !.run = TRUE], "start", r.f, r.c)

\* stop()'s completion callback with start()'s assignment pasted in.
stopDoneSetsRunning(s, r, err) ==
  IF err # NoErr THEN callbackError(s, r.f, err, r.c, TRUE)
  ELSE emitOnce([s EXCEPT !.run = TRUE], "stop", r.f, r.c)

\* The completion callback of stop()'s control transfer.
stopDone(s, r, err) ==
  IF err # NoErr THEN callbackError(s, r.f, err, r.c, TRUE)
  ELSE emitOnce([s EXCEPT !.run = FALSE], "stop", r.f, r.c)

\* The data-release callback dropping a release error instead of emitting it.
dataReleasedSilent(s, r, err) ==
  IF err # NoErr THEN s
  ELSE LET s1 == [s EXCEPT !.dev.data = FALSE, !.dev.polling = FALSE]
       IN Submit(Tx(s1, "release_ctl", r.c, 0),
                 [kind |-> "rel_ctl", c |-> r.c, f |-> r.f])

\* The completion callback of close()'s data-interface release.
dataReleased(s, r, err) ==
  IF err # NoErr THEN Emit(s, "error", r.c, err)
  ELSE LET s1 == [s EXCEPT !.dev.data = FALSE, !.dev.polling = FALSE]
       IN Submit(Tx(s1, "release_ctl", r.c, 0),
                 [kind |-> "rel_ctl", c |-> r.c, f |-> r.f])

\* The control-release callback emitting 'close' before it marks the session
\* closed.
ctlReleasedEmitFirst(s, r, err) ==
  IF err # NoErr THEN Emit(s, "error", r.c, err)
  ELSE LET s1 == [s EXCEPT !.dev.ctl = FALSE, !.dev.detached = FALSE]
           s2 == emitOnce(Tx(s1, "device.close", r.c, 0), "close", r.f, r.c)
       IN [s2 EXCEPT !.dev.opened = FALSE, !.open = FALSE]

\* The completion callback of close()'s control-interface release.
ctlReleased(s, r, err) ==
  IF err # NoErr THEN Emit(s, "error", r.c, err)
  ELSE LET s1 == [s EXCEPT !.dev.ctl = FALSE, !.dev.detached = FALSE]
           s2 == Tx(s1, "device.close", r.c, 0)
           s3 == [s2 EXCEPT !.dev.opened = FALSE, !.open = FALSE]
       IN emitOnce(s3, "close", r.f, r.c)

\* PenDaq.prototype._onDisconnect
onDisconnect(s) == Emit([s EXCEPT !.con = FALSE], "disconnected", 0, NoErr)

-----------------------------------------------------------------------------
(* The sample stream decoder.  A buffer is a sequence of bytes (0..255);     *)
(* offsets are 0-based as in the code.                                       *)

\* Buffer.readUInt16BE: the two bytes in the other order.
readUInt16BE(data, i) == 256 * data[i + 1] + data[i + 2]

\* Buffer.readUInt16LE(i)
readUInt16LE(data, i) == data[i + 1] + 256 * data[i + 2]

\* Buffer.readUInt8(i)
readUInt8(data, i) == data[i + 1]

\* What one 9-byte window at offset i produces: emit('data', [an1..an4]) or
\* emit('error', checksum error).
Window(data, i) ==
  LET an1 == readUInt16LE(data, i)
      an2 == readUInt16LE(data, i + 2)
      an3 == readUInt16LE(data, i + 4)
      an4 == readUInt16LE(data, i + 6)
      chksum == readUInt8(data, i + 8)
  IN IF (an1 + an2 + an3 + an4) % 256 = chksum
     THEN [n |-> "data", v |-> << an1, an2, an3, an4 >>, err |-> NoErr]
     ELSE [n |-> "error", v |-> << >>, err |-> ChecksumMismatch]

RECURSIVE ScanNoBreak(_, _, _)
\* The loop without its "fewer than 9 bytes left" test: a read past the end
\* of the buffer raises a RangeError, which ends the call.
ScanNoBreak(data, i, out) ==
  IF ~(i < Len(data)) THEN [out |-> out, raised |-> FALSE]
  ELSE IF i + 9 > Len(data) THEN [out |-> out, raised |-> TRUE]
  ELSE ScanNoBreak(data, i + 9, Append(out, Window(data, i)))

RECURSIVE Scan(_, _, _)
\* The for loop of _onRawData from offset i on; out is what was emitted so far.
Scan(data, i, out) ==
  IF ~(i < Len(data)) THEN [out |-> out, raised |-> FALSE]
  ELSE IF i + 9 > Len(data) THEN [out |-> out, raised |-> FALSE]
  ELSE Scan(data, i + 9, Append(out, Window(data, i)))

\* PenDaq.prototype._onRawData: the events emitted, in order, and whether the
\* call raised.
onRawData(data) == Scan(data, 0, << >>)

RECURSIVE EmitAll(_, _, _)
EmitAll(s, out, k) ==
  IF k > Len(out) THEN s
  ELSE EmitAll(Log(s, "emit", out[k].n, 0, out[k].err, out[k].v), out, k + 1)

\* The 'data' listener open() sets on the data-in endpoint.
incomingData(s, data) ==
  LET s1 == Log(s, "emit", "rawdata", 0, NoErr, data)
      r == onRawData(data)
      s2 == EmitAll(s1, r.out, 1)
  IN IF r.raised THEN Log(s2, "raise", "RangeError", 0, NoErr, 0) ELSE s2

\* An endpoint 'error' listener that also marks the session closed.
endpointErrorCloses(s, ep) ==
  Emit([s EXCEPT !.open = FALSE, !.run = FALSE], "error", 0, TransportFailure)

\* The 'error' listeners open() sets on the three endpoints:
\* this.emit.bind(this, 'error').
endpointError(s, ep) == Emit(s, "error", 0, TransportFailure)

\* The endpoints open() listens to.
Endpoints == {"ctl", "dataIn", "dataOut"}

\* A record as the device sends it: four little-endian 16-bit values and a
\* checksum byte.
Record(an, chk) ==
  << an[1] % 256, an[1] \div 256, an[2] % 256, an[2] \div 256,
     an[3] % 256, an[3] \div 256, an[4] % 256, an[4] \div 256, chk >>

Checksum(an) == (an[1] + an[2] + an[3] + an[4]) % 256

\* The channel readings used to build input buffers.
Samples ==
  { << 1, 2, 3, 4 >>, << 65535, 65535, 65535, 65535 >>, << 256, 255, 1, 0 >> }

\* Input windows: each sample with its right checksum and with 0xFF.
Windows == UNION {{Record(an, Checksum(an)), Record(an, 255)} : an \in Samples}

\* Input tails: the first 0, 1 or 8 bytes of a valid record.
Tails == {SubSeq(Record(<< 1, 2, 3, 4 >>, 10), 1, k) : k \in {0, 1, 8}}

RECURSIVE Flatten(_)
Flatten(ws) == IF ws = << >> THEN << >> ELSE Head(ws) \o Flatten(Tail(ws))

\* Input buffers: up to MaxWindows windows followed by a tail.
Buffers ==
  { Flatten(ws) \o tl :
      ws \in UNION {[1..k -> Windows] : k \in 0..MaxWindows}, tl \in Tails }

\* The buffers delivered to a session that is also being operated: a valid
\* record, a record with a wrong checksum followed by a valid one, and a
\* valid record followed by four stray bytes.
SessionBuffers ==
  { Record(<< 1, 2, 3, 4 >>, 10),
    Record(<< 1, 2, 3, 4 >>, 255) \o Record(<< 1, 2, 3, 4 >>, 10),
    Record(<< 1, 2, 3, 4 >>, 10) \o << 1, 0, 2, 0 >> }

-----------------------------------------------------------------------------

(* The device registry (src/src/index.js).  A usb device is a record of its  *)
(* bus number, device address and device descriptor; a session handle is the *)
(* index of the PenDaq in sessions, in order of construction.                *)

\* ids.usbIDs: the allow-list of vendor/product pairs.
usbIDs == << [idVendor |-> 1, idProduct |-> 1], [idVendor |-> 1, idProduct |-> 2] >>

\* The value of devices[i] past the end of the array.
Undefined == 0

Descriptor(vid, pid) == [defined |-> TRUE, idVendor |-> vid, idProduct |-> pid]
NoDescriptor == [defined |-> FALSE, idVendor |-> 0, idProduct |-> 0]
UsbDevice(bus, addr, desc) ==
  [busNumber |-> bus, deviceAddress |-> addr, deviceDescriptor |-> desc]

\* The devices the bus reports: allow-listed ones, among them one on bus 0
\* and one at address 0, one that is not allow-listed and one without a
\* descriptor.
Devs ==
  { UsbDevice(1, 1, Descriptor(1, 1)), UsbDevice(1, 2, Descriptor(1, 2)),
    UsbDevice(0, 1, Descriptor(1, 1)), UsbDevice(1, 0, Descriptor(1, 1)),
    UsbDevice(1, 3, Descriptor(2, 1)), UsbDevice(2, 2, NoDescriptor) }

\* What usb.getDeviceList() returns when the module is loaded.
DeviceLists ==
  {<< >>} \cup {<< d >> : d \in Devs}
    \cup {<< UsbDevice(1, 1, Descriptor(1, 1)), UsbDevice(1, 2, Descriptor(1, 2)) >>}

\* JavaScript truthiness of a number.
Truthy(n) == n # 0

matchVidPid(desc1, desc2) ==
  IF ~desc2.defined THEN FALSE
  ELSE desc1.idVendor = desc2.idVendor /\ desc1.idProduct = desc2.idProduct

matchDeviceAddresses(dev1, dev2) ==
  /\ Truthy(dev1.busNumber)
  /\ Truthy(dev1.deviceAddress)
  /\ dev1.busNumber = dev2.busNumber
  /\ dev1.deviceAddress = dev2.deviceAddress

\* new PenDaq(dev)
NewPenDaq(dev) == [device |-> dev, open |-> FALSE, run |-> FALSE, con |-> TRUE]

\* The registry state a handler works on; fx is what the handler has done.
R == [devices |-> devices, sessions |-> sessions, listening |-> listening, fx |-> << >>]

Fx(r, k, n, v) == [r EXCEPT !.fx = Append(@, [k |-> k, n |-> n, v |-> v])]

AllowListed(dev) ==
  \E i \in DOMAIN usbIDs : matchVidPid(usbIDs[i], dev.deviceDescriptor)

\* The indexes of the tracked sessions whose device matches dev.
Matching(r, dev) ==
  {i \in DOMAIN r.devices : matchDeviceAddresses(r.sessions[r.devices[i]].device, dev)}

checkNewDevice(r, dev) ==
  IF ~dev.deviceDescriptor.defined THEN r
  ELSE IF ~AllowListed(dev) THEN r
  ELSE IF Matching(r, dev) # {} THEN r
  ELSE LET pendaq == Len(r.sessions) + 1
           r1 == [r EXCEPT !.sessions = Append(@, NewPenDaq(dev)),
                           !.devices = Append(@, pendaq)]
       IN Fx(r1, "emit", "connected", pendaq)

\* devices.splice(i, 1)
Splice(devs, i) == SubSeq(devs, 1, i - 1) \o SubSeq(devs, i + 1, Len(devs))

\* checkRemoveDevice without its call of _onDisconnect.
checkRemoveDeviceNoMark(r, dev) ==
  IF ~dev.deviceDescriptor.defined THEN r
  ELSE IF Matching(r, dev) = {} THEN r
  ELSE LET i == CHOOSE j \in Matching(r, dev) : \A k \in Matching(r, dev) : j <= k
           r2 == [r EXCEPT !.devices = Splice(@, i)]
           payload == IF i <= Len(r2.devices) THEN r2.devices[i] ELSE Undefined
       IN Fx(r2, "emit", "disconnected", payload)

checkRemoveDevice(r, dev) ==
  IF ~dev.deviceDescriptor.defined THEN r
  ELSE IF Matching(r, dev) = {} THEN r
  ELSE LET i == CHOOSE j \in Matching(r, dev) : \A k \in Matching(r, dev) : j <= k
           h == r.devices[i]
           r1 == Fx([r EXCEPT !.sessions[h].con = FALSE], "emit", "session.disconnected", h)
           r2 == [r1 EXCEPT !.devices = Splice(@, i)]
           payload == IF i <= Len(r2.devices) THEN r2.devices[i] ELSE Undefined
       IN Fx(r2, "emit", "disconnected", payload)

\* The identifier the registry gives a device.
DeviceId(dev) == ToString(dev.busNumber) \o "." \o ToString(dev.deviceAddress)

getAvailableDevices(r) ==
  [i \in DOMAIN r.devices |-> DeviceId(r.sessions[r.devices[i]].device)]

\* end() that removes only the attach listener.
endAttachOnly(r) ==
  Fx([r EXCEPT !.listening.attach = FALSE], "call", "removeListener", "attach")

end(r) ==
  LET r1 == Fx([r EXCEPT !.listening.attach = FALSE], "call", "removeListener", "attach")
  IN Fx([r1 EXCEPT !.listening.detach = FALSE], "call", "removeListener", "detach")

RECURSIVE ScanDevices(_, _, _)
ScanDevices(r, usbDevs, k) ==
  IF k > Len(usbDevs) THEN r
  ELSE ScanDevices(checkNewDevice(r, usbDevs[k]), usbDevs, k + 1)

init(r, usbDevs) ==
  [ScanDevices(r, usbDevs, 1) EXCEPT !.listening = [attach |-> TRUE, detach |-> TRUE]]

\* usb.emit(evt, dev): the registry's handler runs if usb still holds it.
usbEmit(r, evt, dev) ==
  IF ~r.listening[evt] THEN r
  ELSE IF evt = "attach" THEN checkNewDevice(r, dev)
  ELSE checkRemoveDevice(r, dev)

\* The number of 'connected' events among the effects fx.
Connected(fx) ==
  Cardinality({i \in DOMAIN fx : fx[i].k = "emit" /\ fx[i].n = "connected"})

\* What the user of a session can make of its flags: open(), start(), stop()
\* and close(), each run to completion.
sessionOps(s) ==
  (IF ~s.open /\ s.con THEN {[s EXCEPT !.open = TRUE]} ELSE {})
    \cup (IF s.open /\ s.con /\ ~s.run THEN {[s EXCEPT !.run = TRUE]} ELSE {})
    \cup (IF s.open /\ s.con /\ s.run THEN {[s EXCEPT !.run = FALSE]} ELSE {})
    \cup (IF s.open /\ s.con THEN {[s EXCEPT !.open = FALSE, !.run = FALSE]} ELSE {})

\* The registry variables of a process that has not loaded the registry.
RegistryIdle ==
  /\ devices = << >>
  /\ sessions = << >>
  /\ listening = [attach |-> FALSE, detach |-> FALSE]
  /\ present = {}
  /\ connects = [d \in Devs |-> 0]
  /\ ended = FALSE
  /\ rlast = [note |-> "none", args |-> << >>, was |-> FALSE, fx |-> << >>]
  /\ nsteps = 0

-----------------------------------------------------------------------------

\* The session variables after new PenDaq(device).
SessionInit ==
  /\ isOpen = FALSE
  /\ isRunning = FALSE
  /\ isConnected = TRUE
  /\ device = DeviceInit
  /\ pending = {}
  /\ ticks = << >>
  /\ logs = [c \in 1..MaxCalls |-> << >>]
  /\ last = [c |-> 0, log |-> << >>, done |-> TRUE]
  /\ ncalls = 0
  /\ nfaults = 0

Init == SessionInit /\ RegistryIdle

\* The transport may produce a fault only while the fault bound allows it.
Faulty(b) == b => nfaults < MaxFaults
Count(b) == nfaults' = IF b THEN nfaults + 1 ELSE nfaults

\* The user calls a public method: the call is recorded, the method runs to
\* its return, the return is recorded.
Called(s, op, f, c) == Log(s, "call", op, c, NoErr, IF f.fn = "none" THEN 0 ELSE 1)
Returned(s, op, c) == Log(s, "ret", op, c, NoErr, 0)

CallOpen ==
  /\ ncalls < MaxCalls
  /\ \E f \in Callbacks, failAt \in 0..NSteps :
       LET c == ncalls + 1
           s == Called(M(c, FALSE), "open", f, c)
           acquiring == ~isOpen /\ isConnected
       IN /\ failAt # 0 => acquiring
          /\ Faulty(failAt # 0)
          /\ Commit(Returned(open(s, c, f, failAt), "open", c), c)
          /\ Count(failAt # 0)
  /\ ncalls' = ncalls + 1

CallClose ==
  /\ ncalls < MaxCalls
  /\ \E f \in Callbacks, thr \in BOOLEAN :
       LET c == ncalls + 1
           releasing == isOpen /\ isConnected /\ ~isRunning
       IN /\ thr => releasing
          /\ Faulty(thr)
          /\ Commit(Returned(close(Called(M(c, thr), "close", f, c), c, f), "close", c), c)
          /\ Count(thr)
  /\ ncalls' = ncalls + 1

CallStart ==
  /\ ncalls < MaxCalls
  /\ \E f \in Callbacks :
       LET c == ncalls + 1
       IN Commit(Returned(start(Called(M(c, FALSE), "start", f, c), c, f), "start", c), c)
  /\ ncalls' = ncalls + 1
  /\ UNCHANGED nfaults

CallStop ==
  /\ ncalls < MaxCalls
  /\ \E f \in Callbacks :
       LET c == ncalls + 1
       IN Commit(Returned(stop(Called(M(c, FALSE), "stop", f, c), c, f), "stop", c), c)
  /\ ncalls' = ncalls + 1
  /\ UNCHANGED nfaults

\* The transport calling a request's completion callback with err.
Completed(s, r, err) == Log(s, "complete", r.kind, r.c, err, 0)

\* The transport completes a request, successfully or with an error, and the
\* request's completion callback runs.  I/O callbacks run only once the
\* nextTick queue is drained.
Complete ==
  /\ ticks = << >>
  /\ \E r \in pending, err \in {NoErr, TransportFailure}, thr \in BOOLEAN :
       LET s0 == Completed([M(r.c, thr) EXCEPT !.pending = @ \ {r}], r, err)
           s == IF err = NoErr THEN s0 ELSE Fault(s0, r.kind, r.c)
           \* the completion re-enters close() and reaches its release
           releasing == /\ r.kind = "stop" /\ r.f.fn = "closeInner" /\ err = NoErr
                        /\ isOpen /\ isConnected
       IN /\ thr => releasing
          /\ ~(thr /\ err # NoErr)
          /\ Faulty(thr \/ err # NoErr)
          /\ Commit(CASE r.kind = "start" -> startDone(s, r, err)
                      [] r.kind = "stop" -> stopDone(s, r, err)
                      [] r.kind = "rel_data" -> dataReleased(s, r, err)
                      [] r.kind = "rel_ctl" -> ctlReleased(s, r, err), r.c)
          /\ Count(thr \/ err # NoErr)
  /\ UNCHANGED ncalls

\* The first function of the nextTick queue runs.
Tick ==
  /\ ticks # << >>
  /\ LET t == Head(ticks)
         s == [M(t.c, FALSE) EXCEPT !.ticks = Tail(@)]
     IN Commit(Invoke(s, t.f, t.err, t.c), t.c)
  /\ UNCHANGED << ncalls, nfaults >>

\* The registry reports the detach of the device.
Disconnect ==
  /\ isConnected
  /\ ticks = << >>
  /\ Commit(onDisconnect(M(0, FALSE)), 0)
  /\ UNCHANGED << ncalls, nfaults >>

\* The bytes a delivery leaves over after its last whole window.
Trailing(data) == SubSeq(data, Len(data) - (Len(data) % 9) + 1, Len(data))

\* The bytes left over by the delivery of the previous step, if that step was
\* a delivery.
PrevTail ==
  IF last.c = 0 /\ last.log # << >> /\ last.log[1].k = "io" /\ last.log[1].n = "data"
  THEN Trailing(last.log[1].v)
  ELSE << >>

\* The data-in endpoint delivers a buffer of B to its 'data' listener.
IncomingData(B) ==
  /\ device.listeners /\ device.polling
  /\ ticks = << >>
  /\ \E data \in B :
       LET s0 == Log(Log(M(0, FALSE), "io", "data", 0, NoErr, data),
                     "io", "prevTail", 0, NoErr, PrevTail)
       IN Commit(Log(incomingData(s0, data), "ret", "data", 0, NoErr, 0), 0)
  /\ UNCHANGED << ncalls, nfaults >>

\* One of the three endpoints reports a transport error to its 'error'
\* listener.
EndpointError ==
  /\ device.listeners
  /\ ticks = << >>
  /\ \E ep \in Endpoints :
       LET s0 == Log(M(0, FALSE), "io", ep, 0, TransportFailure, 0)
       IN Commit(Log(endpointError(s0, ep), "ret", ep, 0, NoErr, 0), 0)
  /\ UNCHANGED << ncalls, nfaults >>

Next ==
  \/ CallOpen
  \/ CallClose
  \/ CallStart
  \/ CallStop
  \/ Complete
  \/ Tick
  \/ Disconnect

Spec == Init /\ [][Next]_vars

\* The session operated by its user while its endpoints deliver buffers and
\* report errors.
NextIO ==
  \/ Next /\ ncalls' <= MaxIOCalls
  \/ IncomingData(SessionBuffers)
  \/ EndpointError

SpecIO == Init /\ [][NextIO]_vars


\* The decoder fed with every input buffer: a session that open() has just
\* opened (no callback, every transport step succeeding) receives buffers.
InitData ==
  /\ isOpen = TRUE
  /\ isRunning = FALSE
  /\ isConnected = TRUE
  /\ device = Acquired(DeviceInit, NSteps)
  /\ pending = {}
  /\ ticks = << >>
  /\ logs = [c \in 1..MaxCalls |-> << >>]
  /\ last = [c |-> 0, log |-> << >>, done |-> TRUE]
  /\ ncalls = 1
  /\ nfaults = 0
  /\ RegistryIdle

NextData ==
  \/ IncomingData(Buffers)
  \/ EndpointError

SpecData == InitData /\ [][NextData]_vars

\* A session after two calls, open() and start(), of which start() has
\* completed or has failed: Running or Open, nothing in flight.
InitLive ==
  /\ isOpen = TRUE
  /\ isRunning \in BOOLEAN
  /\ isConnected = TRUE
  /\ device = Acquired(DeviceInit, NSteps)
  /\ pending = {}
  /\ ticks = << >>
  /\ logs = [c \in 1..MaxCalls |-> << >>]
  /\ last = [c |-> 0, log |-> << >>, done |-> TRUE]
  /\ ncalls = 2
  /\ nfaults = 0
  /\ RegistryIdle

\* The opened session with a transport that completes every request it was
\* given and an event loop that runs every function queued with
\* process.nextTick.
WithinLive == ncalls' <= MaxLiveCalls /\ nfaults' <= MaxLiveFaults

NextLive ==
  \/ CallClose /\ WithinLive
  \/ CallStart /\ WithinLive
  \/ CallStop /\ WithinLive
  \/ Complete /\ WithinLive
  \/ Tick
  \/ Disconnect

SpecLive == InitLive /\ [][NextLive]_vars /\ WF_vars(Complete) /\ WF_vars(Tick)

-----------------------------------------------------------------------------
(* The registry: module load, usb notifications, end(), and the users of the *)
(* sessions it hands out.                                                    *)

\* Bound on the number of registry steps after the module is loaded.
MaxRegSteps == 4

RegCommit(r, note, args, was) ==
  /\ devices' = r.devices
  /\ sessions' = r.sessions
  /\ listening' = r.listening
  /\ rlast' = [note |-> note, args |-> args, was |-> was, fx |-> r.fx]
  /\ nsteps' = nsteps + 1
  /\ UNCHANGED svars

\* usb notifies the attach of a device.
Attach ==
  /\ nsteps < MaxRegSteps
  /\ \E dev \in Devs :
       LET r == usbEmit(R, "attach", dev)
       IN /\ RegCommit(r, "attach", << dev >>, dev \in present)
          /\ present' = present \cup {dev}
          /\ connects' = [connects EXCEPT ![dev] = @ + Connected(r.fx)]
  /\ UNCHANGED ended

\* usb notifies the detach of a device.
Detach ==
  /\ nsteps < MaxRegSteps
  /\ \E dev \in Devs :
       LET r == usbEmit(R, "detach", dev)
       IN /\ RegCommit(r, "detach", << dev >>, dev \in present)
          /\ present' = present \ {dev}
          /\ connects' = [connects EXCEPT ![dev] = 0]
  /\ UNCHANGED ended

\* The application calls end().
End ==
  /\ nsteps < MaxRegSteps
  /\ RegCommit(end(R), "end", << >>, FALSE)
  /\ ended' = TRUE
  /\ UNCHANGED << present, connects >>

\* The user of a session the registry has handed out operates it.
UserOperates ==
  /\ nsteps < MaxRegSteps
  /\ \E h \in DOMAIN sessions : \E s \in sessionOps(sessions[h]) :
       RegCommit([R EXCEPT !.sessions[h] = s], "user", << sessions[h].device >>, FALSE)
  /\ UNCHANGED << present, connects, ended >>

\* The registry once require() has run init() on what the bus holds.
InitRegistry ==
  /\ SessionInit
  /\ \E usbDevs \in DeviceLists :
       LET r0 == [devices |-> << >>, sessions |-> << >>,
                  listening |-> [attach |-> FALSE, detach |-> FALSE], fx |-> << >>]
           r == init(r0, usbDevs)
       IN /\ devices = r.devices
          /\ sessions = r.sessions
          /\ listening = r.listening
          /\ present = {usbDevs[i] : i \in DOMAIN usbDevs}
          /\ connects = [d \in Devs |->
               Cardinality({i \in DOMAIN r.fx : r.fx[i].v \in DOMAIN r.sessions
                                                /\ r.sessions[r.fx[i].v].device = d})]
          /\ rlast = [note |-> "init", args |-> usbDevs, was |-> FALSE, fx |-> r.fx]
  /\ ended = FALSE
  /\ nsteps = 0

NextRegistry ==
  \/ Attach
  \/ Detach
  \/ End
  \/ UserOperates

SpecRegistry == InitRegistry /\ [][NextRegistry]_vars

-----------------------------------------------------------------------------
(* What the call of the last step has done so far. *)

L == last.log

\* The last step worked for a call of op (and not for _onDisconnect).
IsCall(op) == last.c # 0 /\ L # << >> /\ L[1].k = "call" /\ L[1].n = op
WithCb == L[1].v = 1

At(k, n) == {i \in DOMAIN L : L[i].k = k /\ L[i].n = n}
Emitted(n) == Cardinality(At("emit", n))
Kind(k) == {i \in DOMAIN L : L[i].k = k}
SameFlags(a, b) == a.open = b.open /\ a.run = b.run /\ a.con = b.con
\* The entry recording the return of the call to its caller.
Ret == L[CHOOSE i \in Kind("ret") : TRUE]

\* C1: when close() is called on a connected Running session and the
\* transport completes every request successfully, every 'close' event of the
\* call comes after a 'stop' event of the call, and the session is not
\* Running when 'close' is emitted.
C1_StopBeforeCloseNotRunning ==
  (IsCall("close") /\ L[1].open /\ L[1].run /\ L[1].con /\ Kind("fault") = {})
    => \A i \in At("emit", "close") :
         /\ \E j \in At("emit", "stop") : j < i
         /\ ~L[i].run

\* C2: an open() call made while the session is Open or Running emits no
\* event and no error, calls no callback, does not touch the transport,
\* leaves the flags unchanged and is over when it returns; and no open() call
\* emits more than one 'open' event.
C2_SecondOpenIsNoOp ==
  IsCall("open") =>
    /\ Emitted("open") <= 1
    /\ (L[1].open /\ L[1].con) =>
         /\ Kind("emit") = {} /\ Kind("tx") = {} /\ Kind("cb") = {}
         /\ last.done
         /\ SameFlags(Ret, L[1])

\* C2 witness: an open() call with a callback was made on an Open, connected
\* session and has returned.
C2_Witness ==
  IsCall("open") /\ L[1].open /\ L[1].con /\ WithCb /\ Kind("ret") # {} /\ last.done

\* C3: a start() call made after _onDisconnect issues no control transfer,
\* emits one 'error' event carrying NotConnected and, given a callback, calls
\* it once with NotConnected.
C3_StartAfterDisconnect ==
  (IsCall("start") /\ ~L[1].con /\ last.done) =>
    /\ Kind("tx") = {}
    /\ Emitted("error") = 1
    /\ \A i \in At("emit", "error") : L[i].err = NotConnected
    /\ WithCb => /\ Cardinality(Kind("cb")) = 1
                 /\ \A i \in Kind("cb") : L[i].err = NotConnected

\* C4: a finished call that was given a callback has produced exactly one
\* notification (its success event or an 'error' event) and has invoked the
\* callback exactly once.
C4_OneNotificationOneCallback ==
  (last.c # 0 /\ L # << >> /\ WithCb /\ last.done) =>
    /\ Emitted(L[1].n) + Emitted("error") = 1
    /\ Cardinality(Kind("cb")) = 1

\* A start() or stop() call rejected by its guards.
GuardViolation ==
  (IsCall("start") \/ IsCall("stop")) /\ (~L[1].open \/ ~L[1].con)

\* C5: a finished call has emitted exactly one 'error' event per failure it
\* met (a guard violation of start/stop, a transport fault), and none
\* otherwise.
C5_OneErrorPerFailure ==
  (last.c # 0 /\ L # << >> /\ last.done) =>
    Emitted("error") =
      Cardinality(Kind("fault")) + (IF GuardViolation THEN 1 ELSE 0)

\* C6: a start() call made in any state other than Open (not Running) and
\* connected issues no control transfer, emits one 'error' event carrying
\* NotOpen or NotConnected and leaves the flags unchanged.
C6_StartOnlyFromOpen ==
  (IsCall("start") /\ ~(L[1].open /\ ~L[1].run /\ L[1].con) /\ last.done) =>
    /\ Kind("tx") = {}
    /\ Emitted("error") = 1
    /\ \A i \in At("emit", "error") : L[i].err \in {NotOpen, NotConnected}
    /\ \A i \in DOMAIN L : SameFlags(L[i], L[1])

\* C7: an open() or stop() call made on a Disconnected session does not touch
\* the transport, leaves the flags unchanged, emits one 'error' event
\* carrying NotConnected and, given a callback, calls it with NotConnected.
C7_DisconnectedOpsFail ==
  ((IsCall("open") \/ IsCall("stop")) /\ ~L[1].con /\ last.done) =>
    /\ Kind("tx") = {}
    /\ \A i \in DOMAIN L : SameFlags(L[i], L[1])
    /\ Emitted("error") = 1
    /\ \A i \in At("emit", "error") : L[i].err = NotConnected
    /\ WithCb => /\ Cardinality(Kind("cb")) = 1
                 /\ \A i \in Kind("cb") : L[i].err = NotConnected

\* C8: an open() call in which a transport step throws leaves the session
\* Closed, emits no 'open' event and exactly one 'error' event, and the
\* callback, when given, is deferred and then called once with that error.
C8_OpenFailureStaysClosed ==
  (IsCall("open") /\ Kind("fault") # {}) =>
    /\ \A i \in DOMAIN L : L[i].k # "cb" => ~L[i].open /\ SameFlags(L[i], L[1])
    /\ Emitted("open") = 0
    /\ Emitted("error") = 1
    /\ \A i \in At("emit", "error") : L[i].err = TransportFailure
    /\ \A i \in Kind("cb") : L[i].err = TransportFailure
    /\ Cardinality(Kind("cb")) = (IF WithCb /\ last.done THEN 1 ELSE 0)
    /\ last.done = ~(WithCb /\ Kind("cb") = {})

\* C8 witness: open() with a callback failed at its last step, startPoll,
\* and the callback has been called.
C8_Witness ==
  /\ IsCall("open") /\ WithCb /\ last.done
  /\ At("fault", "startPoll") # {}
  /\ Kind("cb") # {}

C10_InFlightObservesDisconnect ==
  /\ last.c # 0 =>
       \A i \in At("emit", "start") \cup At("emit", "stop") : L[i].con
  /\ last.c = 0 => Kind("tx") = {}

\* The transport calls, completions and events of the call, in order.
Steps == SelectSeq(L, LAMBDA e : e.k \in {"tx", "complete", "emit"})
StepNames == [i \in DOMAIN Steps |-> << Steps[i].k, Steps[i].n >>]

\* What close() does on an Open session whose releases succeed.
CloseOrder ==
  << << "tx", "release_data" >>, << "complete", "rel_data" >>,
     << "tx", "release_ctl" >>, << "complete", "rel_ctl" >>,
     << "tx", "device.close" >>, << "emit", "close" >> >>

\* C17: a close() call made on a connected Open (not Running) session whose
\* releases succeed releases the data interface, then (once that release has
\* completed) the control interface, then closes the device and emits
\* 'close', in that order; 'close' is emitted with _isOpen already false.
C17_CloseOrder ==
  (IsCall("close") /\ L[1].open /\ ~L[1].run /\ L[1].con /\ Kind("fault") = {}) =>
    /\ Len(StepNames) <= Len(CloseOrder)
    /\ StepNames = SubSeq(CloseOrder, 1, Len(StepNames))
    /\ last.done => StepNames = CloseOrder
    /\ \A i \in At("emit", "close") : ~L[i].open

\* C17 witness: such a close() call has run to its 'close' event.
C17_Witness ==
  /\ IsCall("close") /\ L[1].open /\ ~L[1].run /\ L[1].con /\ last.done
  /\ StepNames = CloseOrder

C20_RunningImpliesOpen == isRunning => isOpen

-----------------------------------------------------------------------------
(* The decoder and the endpoint listeners. *)

\* The last step was a delivery of a buffer to the 'data' listener.
IsData == last.c = 0 /\ L # << >> /\ L[1].k = "io" /\ L[1].n = "data"
\* The buffer delivered, and the bytes the previous delivery left over.
Buf == L[1].v
Carried == L[2].v
\* What the delivery emitted for the windows, in order.
Results == SelectSeq(L, LAMBDA e : e.k = "emit" /\ e.n \in {"data", "error"})

\* Byte j (1..9) of window k (1, 2, ...) of a buffer, and the unsigned
\* little-endian 16-bit value j (1..4) of that window.
ByteOf(buf, k, j) == buf[9 * (k - 1) + j]
ValueOf(buf, k, j) == ByteOf(buf, k, 2 * j - 1) + 256 * ByteOf(buf, k, 2 * j)
ValuesOf(buf, k) ==
  << ValueOf(buf, k, 1), ValueOf(buf, k, 2), ValueOf(buf, k, 3), ValueOf(buf, k, 4) >>
ChecksumOk(buf, k) ==
  ByteOf(buf, k, 9) =
    (ValueOf(buf, k, 1) + ValueOf(buf, k, 2) + ValueOf(buf, k, 3) + ValueOf(buf, k, 4)) % 256

\* C14: a delivered buffer has one result per full 9-byte window; the k-th result
\* is a 'data' event carrying the four little-endian values when the ninth
\* byte is their sum mod 256, and a checksum 'error' event otherwise; a window
\* holding the record of a sample with its right checksum yields that sample.
C14_OneResultPerWindow ==
  IsData =>
    \A k \in 1..(Len(Buf) \div 9) :
      /\ Len(Results) = Len(Buf) \div 9
      /\ IF ChecksumOk(Buf, k)
         THEN Results[k].n = "data" /\ Results[k].v = ValuesOf(Buf, k)
         ELSE Results[k].n = "error" /\ Results[k].err = ChecksumMismatch
      /\ \A an \in Samples :
           SubSeq(Buf, 9 * k - 8, 9 * k) = Record(an, Checksum(an))
             => Results[k].n = "data" /\ Results[k].v = an

\* C14 witness: a buffer whose first window has a wrong checksum and whose
\* second window is valid has produced an error, then the sample 65535 x 4.
C14_Witness ==
  /\ IsData /\ Len(Results) = 2
  /\ Results[1].n = "error"
  /\ Results[2].n = "data" /\ Results[2].v = << 65535, 65535, 65535, 65535 >>

\* C15: a delivered buffer of length L produces exactly floor(L/9) results and
\* the call returns without raising, whatever bytes the previous delivery
\* left over.
C15_FloorResults ==
  IsData =>
    /\ Len(Results) = Len(Buf) \div 9
    /\ Kind("raise") = {}
    /\ Kind("ret") # {}

\* C15 witness: the previous delivery left 8 bytes over, this buffer ends
\* with 1 stray byte and holds 2 windows: 2 results, not 3.
C15_Witness ==
  /\ IsData /\ Len(Carried) = 8 /\ Len(Buf) = 19
  /\ Len(Results) = 2

\* The last step was the run of an endpoint listener.
IOStep == last.c = 0 /\ L # << >> /\ L[1].k = "io"
ErrorsIn(log) == {i \in DOMAIN log : log[i].k = "emit" /\ log[i].n = "error"}
BadWindows(buf) == {k \in 1..(Len(buf) \div 9) : ~ChecksumOk(buf, k)}

\* C16: a step in which an endpoint reports an error or delivers a buffer
\* changes nothing of the session (flags, transport, requests in flight,
\* deferred callbacks); an endpoint error is re-emitted as one 'error' event
\* and each window with a wrong checksum as one 'error' event.
C16_ErrorsLeaveSession ==
  [][ IOStep' =>
        /\ UNCHANGED << isOpen, isRunning, isConnected, device, pending, ticks,
                        logs, ncalls, nfaults >>
        /\ last'.log[1].n \in Endpoints =>
             /\ Cardinality(ErrorsIn(last'.log)) = 1
             /\ \A i \in ErrorsIn(last'.log) : last'.log[i].err = TransportFailure
        /\ last'.log[1].n = "data" =>
             /\ Cardinality(ErrorsIn(last'.log)) = Cardinality(BadWindows(last'.log[1].v))
             /\ \A i \in ErrorsIn(last'.log) : last'.log[i].err = ChecksumMismatch
    ]_vars

\* C16 witness: a Running session has just re-emitted an endpoint error.
C16_Witness ==
  IOStep /\ L[1].n \in Endpoints /\ isOpen /\ isRunning /\ ErrorsIn(L) # {}

-----------------------------------------------------------------------------
(* The registry. *)

\* The indexes of the tracked sessions bound to the device dev.
TrackedAs(dev) == {i \in DOMAIN devices : sessions[devices[i]].device = dev}
\* The last step was a usb notification.
IsNote(note) == rlast.note = note /\ Len(rlast.args) = 1
Notified == rlast.args[1]

\* C11: while the registry listens, every allow-listed device notified as
\* attached (in the initial scan or by attach notifications, any number of
\* times) and not detached since has exactly one tracked session and has
\* raised exactly one 'connected' event, bus number or address 0 included.
C11_OneSessionPerIdentity ==
  ~ended =>
    \A dev \in present :
      AllowListed(dev) =>
        Cardinality(TrackedAs(dev)) = 1 /\ connects[dev] = 1

\* C12: a detach notification that matches a tracked session marks that
\* session disconnected, removes it from the tracked list and emits one
\* 'disconnected' event whose payload is the removed session's handle.
C12_DetachPayload ==
  IsNote("detach") /\ rlast.fx # << >> =>
    LET h == rlast.fx[1].v
    IN /\ sessions[h].device = Notified
       /\ ~sessions[h].con
       /\ \A i \in DOMAIN devices : devices[i] # h
       /\ Len(rlast.fx) = 2
       /\ rlast.fx[2] = [k |-> "emit", n |-> "disconnected", v |-> h]

\* C13: while the registry listens, the identifiers getAvailableDevices
\* returns are those of the allow-listed devices attached and not detached
\* since; a device that is not allow-listed is never tracked and raises no
\* event; a device attached while absent gets a new session and a
\* 'connected' event.
C13_AvailableIsPresent ==
  ~ended =>
    /\ {getAvailableDevices(R)[i] : i \in DOMAIN devices}
         = {DeviceId(dev) : dev \in {d \in present : AllowListed(d)}}
    /\ \A i \in DOMAIN devices : AllowListed(sessions[devices[i]].device)
    /\ (IsNote("attach") \/ IsNote("detach")) /\ ~AllowListed(Notified)
         => rlast.fx = << >>
    /\ IsNote("attach") /\ AllowListed(Notified) /\ ~rlast.was
         => /\ rlast.fx = << [k |-> "emit", n |-> "connected", v |-> Len(sessions)] >>
            /\ sessions[Len(sessions)] = NewPenDaq(Notified)
            /\ devices[Len(devices)] = Len(sessions)

\* C19: once end() has been called an attach or detach notification changes
\* neither the tracked list nor any session and raises no event; end() itself
\* changes no session and does nothing but remove the two usb listeners.
C19_EndIsFinal ==
  [][ /\ ended /\ rlast'.note \in {"attach", "detach"} =>
           UNCHANGED << devices, sessions >> /\ rlast'.fx = << >>
      /\ rlast'.note = "end" =>
           /\ UNCHANGED << devices, sessions, svars >>
           /\ \A i \in DOMAIN rlast'.fx :
                rlast'.fx[i].k = "call" /\ rlast'.fx[i].n = "removeListener"
    ]_vars

\* C19 witness: after end(), usb has notified the detach of a device whose
\* tracked session is open, running and still connected.
C19_Witness ==
  /\ ended /\ IsNote("detach")
  /\ \E i \in TrackedAs(Notified) :
       sessions[devices[i]].open /\ sessions[devices[i]].run /\ sessions[devices[i]].con

-----------------------------------------------------------------------------
(* Releasing the transport. *)

\* The releases and closes of the transport still in flight for other calls.
ReleasesInFlight == {r \in pending : r.kind \in {"rel_data", "rel_ctl"} /\ r.c # last.c}

\* C21: a close() call made while the interface releases of an earlier
\* close() are still in flight issues no second interface release.
C21_ReleasedOnce ==
  IsCall("close") /\ ReleasesInFlight # {} =>
    At("tx", "release_data") = {} /\ At("tx", "release_ctl") = {}

\* C22: whenever a 'close' event is emitted the session is Closed at that
\* moment: _isOpen and _isRunning are both false.
C22_CloseMeansClosed ==
  \A i \in At("emit", "close") : ~L[i].open /\ ~L[i].run

\* C23: once an open() call in which a transport step threw has returned,
\* the device handle is not open and no interface is claimed.
C23_FailedOpenHoldsNothing ==
  IsCall("open") /\ Kind("fault") # {} /\ Kind("ret") # {} /\ ~isOpen =>
    ~device.opened /\ ~device.ctl /\ ~device.data

\* Call c is a close() made on a session that was open and connected.
CloseCalledOpen(c) ==
  /\ last.c = c /\ L # << >>
  /\ L[1].k = "call" /\ L[1].n = "close" /\ L[1].open /\ L[1].con
\* Call c has emitted 'close' or 'error'.
CloseEnded(c) == last.c = c /\ (Emitted("close") > 0 \/ Emitted("error") > 0)

\* No transport request is in flight and no deferred callback is queued:
\* every call made so far has run to its end.
Quiescent == pending = {} /\ ticks = << >>

Tracked == {devices[i] : i \in DOMAIN devices}

\* C25: a session the registry created is connected exactly when it is
\* tracked, and a session once disconnected stays disconnected and is never
\* tracked again.
C25_ConnectedIffTracked ==
  /\ [](\A h \in DOMAIN sessions : sessions[h].con <=> h \in Tracked)
  /\ [][ \A h \in DOMAIN sessions :
           ~sessions[h].con =>
             /\ ~sessions'[h].con
             /\ \A i \in DOMAIN devices' : devices'[i] # h ]_vars

\* C25 witness: a device whose session was removed by a detach has been
\* attached again and is tracked with a new session.
C25_Witness ==
  /\ IsNote("attach") /\ TrackedAs(Notified) # {}
  /\ \E h \in DOMAIN sessions : sessions[h].device = Notified /\ ~sessions[h].con

====
